---- MODULE Spec2Model ----
(***************************************************************************)
(* Interview preparation backend: the HTTP route handlers of               *)
(* backend/app/routes and the services of backend/app/services, as a state *)
(* machine over the tables of the data store and the object-storage        *)
(* bucket.  One action per route handler or service method.                *)
(*                                                                         *)
(* Conventions.                                                            *)
(*  - A table is a function from primary key to row; its DOMAIN is the set *)
(*    of stored keys.  INSERT writes the row under its key (the store of   *)
(*    db/connection.py is Cassandra: an INSERT on a stored key overwrites).*)
(*    UPDATE ... WHERE changes the rows the WHERE clause selects.          *)
(*  - A nullable value is Null (<<>>) or Some(x) (<<x>>).                  *)
(*  - A string that is searched or case-folded is a sequence of one-letter *)
(*    strings; every other string is an opaque value.                      *)
(*  - A float is an exact rational <<numerator, denominator>> in lowest    *)
(*    terms.                                                               *)
(*  - resp is the response of the last request: its route, its status and  *)
(*    the parts of the request and of the body that identify it.           *)
(***************************************************************************)
EXTENDS Integers, Sequences, FiniteSets, TLC

VARIABLES
  users,            \* table users: id -> row
  questions,        \* table interview_questions: id -> row
  answers,          \* table user_answers: id -> row
  progress,         \* table question_progress: <<user_id, question_id>> -> row
  media_files,      \* table media_files: id -> row
  bucket,           \* object storage: the set of stored keys
  applications,     \* table job_applications: id -> row
  defaults,         \* the class-level field defaults computed at import
  resp,             \* the response of the last request
  supplied,         \* history: per progress key, the sum and the number of the
                    \* scores that completed update_mastery_level calls passed
  calls             \* the requests served statement by statement: call -> what
                    \* it has read and done

store == <<users, questions, answers, progress, media_files, bucket, applications>>
vars == <<users, questions, answers, progress, media_files, bucket, applications,
          defaults, resp, supplied, calls>>

----------------------------------------------------------------------------
(* Bounds of the model *)

MaxAttempts == 3        \* attempts of one progress row
MaxKeywords == 2        \* keywords of one question
MaxTranscriptLen == 2   \* letters of one transcript

UserIds == {"u1", "u2"}
Emails == {"ann@x", "bob@x"}
Usernames == {"ann", "bob"}
Passwords == {"pw"}
QuestionIds == {"q1", "q2", "q3"}
AnswerIds == {"a1", "a2"}
Times == {1, 2}

----------------------------------------------------------------------------
(* Values *)

Null == <<>>
Some(x) == <<x>>

\* The sequences over S of length at most n
SeqsUpTo(S, n) == UNION {[1..m -> S] : m \in 0..n}

\* seq[:limit]
SliceTo(seq, limit) ==
  IF limit >= 0
  THEN SubSeq(seq, 1, IF limit < Len(seq) THEN limit ELSE Len(seq))
  ELSE SubSeq(seq, 1, IF Len(seq) + limit > 0 THEN Len(seq) + limit ELSE 0)

EmptyTable == << >>

\* INSERT INTO t (key, ...) VALUES ...
Insert(t, k, row) == [i \in (DOMAIN t) \cup {k} |-> IF i = k THEN row ELSE t[i]]

Nobody == "nobody"

NoResponse ==
  [route |-> "none", status |-> 0, token |-> <<>>, user |-> Nobody, arg |-> Null,
   out |-> Null]

Response(route, status, token, user, arg, out) ==
  [route |-> route, status |-> status, token |-> token, user |-> user, arg |-> arg,
   out |-> out]

----------------------------------------------------------------------------
(* Strings: str.lower() and the substring test `in` *)

UpperCase == <<"A", "B", "C", "D", "E", "F", "G", "H", "I", "J", "K", "L", "M",
               "N", "O", "P", "Q", "R", "S", "T", "U", "V", "W", "X", "Y", "Z">>
LowerCase == <<"a", "b", "c", "d", "e", "f", "g", "h", "i", "j", "k", "l", "m",
               "n", "o", "p", "q", "r", "s", "t", "u", "v", "w", "x", "y", "z">>

lower_char(c) ==
  IF \E i \in DOMAIN UpperCase : UpperCase[i] = c
  THEN LowerCase[CHOOSE i \in DOMAIN UpperCase : UpperCase[i] = c]
  ELSE c

\* str.lower()
lower(str) == [i \in DOMAIN str |-> lower_char(str[i])]

\* sub in str
Contains(sub, str) ==
  \E offset \in 0..(Len(str) - Len(sub)) :
    \A j \in 1..Len(sub) : str[offset + j] = sub[j]

----------------------------------------------------------------------------
(* utils/auth: password hashing and bearer tokens *)

get_password_hash(password) == <<"hashed", password>>

verify_password(password, hashed) == hashed = get_password_hash(password)

create_access_token(sub) == <<"bearer", sub>>

NoToken == <<>>
BadToken == <<"bearer">>
Tokens == {NoToken, BadToken} \cup {create_access_token(n) : n \in Usernames}

\* The ids of the users a request with this token may run as: none when the
\* token is missing, malformed or expired, or names no stored user.
get_current_user(token) ==
  IF token \in {NoToken, BadToken}
  THEN {}
  ELSE {id \in DOMAIN users : users[id].username = token[2]}

Unauthorized(route, token) ==
  /\ get_current_user(token) = {}
  /\ resp' = Response(route, 401, token, Nobody, Null, Null)
  /\ UNCHANGED <<store, defaults, supplied, calls>>

----------------------------------------------------------------------------
(* models/user.py, routes/user_routes.py *)

\* UserInDB(**user.dict(), hashed_password=...): id is the class default
UserInDB(user) ==
  [id |-> defaults.UserInDB_id,
   email |-> user.email,
   username |-> user.username,
   hashed_password |-> get_password_hash(user.password),
   skills |-> <<>>]

UserRow(u) ==
  [email |-> u.email, username |-> u.username,
   hashed_password |-> u.hashed_password, skills |-> u.skills]

\* SELECT * FROM users WHERE email = %s
EmailRegistered(email) == {id \in DOMAIN users : users[id].email = email} # {}

\* register_user with the existence check left out
register_user_unchecked(user) ==
  /\ LET user_in_db == UserInDB(user) IN
     /\ users' = Insert(users, user_in_db.id, UserRow(user_in_db))
     /\ resp' = Response("register_user", 200, NoToken, Nobody, user.email, user_in_db.id)
  /\ UNCHANGED <<questions, answers, progress, media_files, bucket, applications,
                 defaults, supplied, calls>>

register_user(user) ==
  /\ IF EmailRegistered(user.email)
     THEN /\ resp' = Response("register_user", 400, NoToken, Nobody, user.email, Null)
          /\ UNCHANGED users
     ELSE LET user_in_db == UserInDB(user) IN
          /\ users' = Insert(users, user_in_db.id, UserRow(user_in_db))
          /\ resp' = Response("register_user", 200, NoToken, Nobody, user.email, user_in_db.id)
  /\ UNCHANGED <<questions, answers, progress, media_files, bucket, applications,
                 defaults, supplied, calls>>

login(username, password) ==
  /\ LET found == {id \in DOMAIN users : users[id].username = username} IN
     \/ /\ \/ found = {}
           \/ \E id \in found : ~verify_password(password, users[id].hashed_password)
        /\ resp' = Response("login", 401, NoToken, Nobody, username, Null)
     \/ \E id \in found :
          /\ verify_password(password, users[id].hashed_password)
          /\ resp' = Response("login", 200, NoToken, Nobody, username,
                              create_access_token(users[id].username))
  /\ UNCHANGED <<store, defaults, supplied, calls>>

read_users_me(token) ==
  \/ Unauthorized("read_users_me", token)
  \/ \E current_user \in get_current_user(token) :
       /\ resp' = Response("read_users_me", 200, token, current_user, Null,
                           users[current_user].email)
       /\ UNCHANGED <<store, defaults, supplied, calls>>

update_user(token, user_update) ==
  \/ Unauthorized("update_user", token)
  \/ \E current_user \in get_current_user(token) :
       /\ users' = [users EXCEPT ![current_user].email = user_update.email,
                                 ![current_user].username = user_update.username]
       /\ resp' = Response("update_user", 200, token, current_user, user_update.email, Null)
       /\ UNCHANGED <<questions, answers, progress, media_files, bucket,
                      applications, defaults, supplied, calls>>

update_skills(token, skills) ==
  \/ Unauthorized("update_skills", token)
  \/ \E current_user \in get_current_user(token) :
       /\ users' = [users EXCEPT ![current_user].skills = skills]
       /\ resp' = Response("update_skills", 200, token, current_user, Null, Null)
       /\ UNCHANGED <<questions, answers, progress, media_files, bucket,
                      applications, defaults, supplied, calls>>

\* A new process: the modules are imported again and every class-level
\* default (id: UUID = uuid4()) is computed again, to a value that is not in
\* use; the store is kept.
Restart(d) ==
  /\ d.UserInDB_id \notin DOMAIN users \cup {defaults.UserInDB_id}
  /\ \A call \in DOMAIN calls :
       calls[call].op = "register_user" => calls[call].user_in_db.id # d.UserInDB_id
  /\ defaults' = d
  /\ resp' = NoResponse
  /\ UNCHANGED <<store, supplied, calls>>

----------------------------------------------------------------------------
(* Floats, as exact rationals <<numerator, denominator>> *)

RECURSIVE GCD(_, _)
GCD(a, b) == IF b = 0 THEN a ELSE GCD(b, a % b)

Rat(n, d) == LET g == GCD(n, d) IN <<n \div g, d \div g>>

RatAdd(x, y) == Rat(x[1] * y[2] + y[1] * x[2], x[2] * y[2])

RatMulInt(x, k) == Rat(x[1] * k, x[2])

RatDivInt(x, k) == Rat(x[1], x[2] * k)

RatLess(x, y) == x[1] * y[2] < y[1] * x[2]

Zero == <<0, 1>>

----------------------------------------------------------------------------
(* models/question.py, routes/interview_routes.py *)

QuestionRow(question) ==
  [category |-> question.category, keywords |-> question.keywords,
   likes |-> question.likes]

create_question(token, question) ==
  \/ Unauthorized("create_question", token)
  \/ \E current_user \in get_current_user(token) :
       /\ questions' = Insert(questions, question.id, QuestionRow(question))
       /\ resp' = Response("create_question", 200, token, current_user, question.id, Null)
       /\ UNCHANGED <<users, answers, progress, media_files, bucket, applications,
                      defaults, supplied, calls>>

\* INSERT INTO user_answers: user_id is the current user's, not the body's
AnswerRow(user_id, answer) ==
  [user_id |-> user_id, question_id |-> answer.question_id,
   confidence_score |-> answer.confidence_score, created_at |-> answer.created_at]

\* INSERT INTO question_progress (user_id, question_id, status, attempts,
\* last_attempt_date): mastery_level is not written
FirstAttempt(created_at) ==
  [status |-> "in_progress", attempts |-> 1, mastery_level |-> Null,
   last_attempt_date |-> created_at]

\* NextAttempt with last_attempt_date left out of the SET clause
NextAttempt_date_kept(row, created_at) ==
  [row EXCEPT !.attempts = @ + 1]

\* UPDATE question_progress SET attempts = attempts + 1, last_attempt_date = %s
NextAttempt(row, created_at) ==
  [row EXCEPT !.attempts = @ + 1, !.last_attempt_date = created_at]

UpsertProgress(user_id, answer) ==
  LET key == <<user_id, answer.question_id>> IN
  IF key \in DOMAIN progress
  THEN [progress EXCEPT ![key] = NextAttempt(@, answer.created_at)]
  ELSE Insert(progress, key, FirstAttempt(answer.created_at))

\* submit_answer with the question lookup left out
submit_answer_unverified(token, answer) ==
  \/ Unauthorized("submit_answer", token)
  \/ \E current_user \in get_current_user(token) :
       /\ answers' = Insert(answers, answer.id, AnswerRow(current_user, answer))
       /\ progress' = UpsertProgress(current_user, answer)
       /\ resp' = Response("submit_answer", 200, token, current_user, answer, Null)
       /\ UNCHANGED <<users, questions, media_files, bucket, applications, defaults,
                      supplied, calls>>

submit_answer(token, answer) ==
  \/ Unauthorized("submit_answer", token)
  \/ \E current_user \in get_current_user(token) :
       /\ IF answer.question_id \notin DOMAIN questions
          THEN /\ resp' = Response("submit_answer", 404, token, current_user, answer, Null)
               /\ UNCHANGED <<answers, progress>>
          ELSE /\ answers' = Insert(answers, answer.id, AnswerRow(current_user, answer))
               /\ progress' = UpsertProgress(current_user, answer)
               /\ resp' = Response("submit_answer", 200, token, current_user, answer, Null)
       /\ UNCHANGED <<users, questions, media_files, bucket, applications, defaults, supplied,
                 calls>>

----------------------------------------------------------------------------
(* services/progress_service.py *)

\* new_mastery with attempts incremented before it is used as the old count
new_mastery_incremented_first(mastery_level, attempts, confidence_score) ==
  RatDivInt(RatAdd(RatMulInt(mastery_level, attempts + 1), confidence_score),
            attempts + 2)

\* (mastery_level * attempts + confidence_score) / (attempts + 1)
new_mastery(mastery_level, attempts, confidence_score) ==
  RatDivInt(RatAdd(RatMulInt(mastery_level, attempts), confidence_score),
            attempts + 1)

\* History: one more score passed for this key
Supply(key, confidence_score) ==
  IF key \in DOMAIN supplied
  THEN [supplied EXCEPT ![key] = [sum |-> RatAdd(@.sum, confidence_score),
                                  n |-> @.n + 1]]
  ELSE Insert(supplied, key, [sum |-> confidence_score, n |-> 1])

\* The service method; status 500 stands for an exception it raises: a row
\* whose mastery_level is NULL reads as None, and None * attempts raises.
update_mastery_level(user_id, question_id, confidence_score, now) ==
  LET key == <<user_id, question_id>>
      arg == [user_id |-> user_id, question_id |-> question_id,
              confidence_score |-> confidence_score]
  IN
  /\ IF key \in DOMAIN progress
     THEN LET current_progress == progress[key] IN
          IF current_progress.mastery_level = Null
          THEN /\ resp' = Response("update_mastery_level", 500, NoToken, Nobody, arg, Null)
               /\ UNCHANGED <<progress, supplied, calls>>
          ELSE /\ progress' =
                    [progress EXCEPT
                       ![key].mastery_level =
                          Some(new_mastery(current_progress.mastery_level[1],
                                           current_progress.attempts,
                                           confidence_score)),
                       ![key].attempts = @ + 1,
                       ![key].last_attempt_date = now]
               /\ resp' = Response("update_mastery_level", 200, NoToken, Nobody, arg, Null)
               /\ supplied' = Supply(key, confidence_score)
     ELSE /\ progress' =
               Insert(progress, key,
                      [status |-> "in_progress", attempts |-> 1,
                       mastery_level |-> Some(confidence_score),
                       last_attempt_date |-> now])
          /\ resp' = Response("update_mastery_level", 200, NoToken, Nobody, arg, Null)
          /\ supplied' = Supply(key, confidence_score)
  /\ UNCHANGED <<users, questions, answers, media_files, bucket, applications,
                 defaults, calls>>

\* sum(scores)
RECURSIVE sum(_)
sum(scores) ==
  IF scores = <<>> THEN Zero ELSE RatAdd(scores[1], sum(Tail(scores)))

\* if answer.confidence_score: None and 0.0 are both false
Truthy(confidence_score) ==
  confidence_score # Null /\ confidence_score[1] # Zero

\* SELECT * FROM user_answers WHERE user_id = %s ORDER BY created_at DESC:
\* the orders the rows may come in
UserAnswerOrders(user_id) ==
  LET mine == {id \in DOMAIN answers : answers[id].user_id = user_id} IN
  {order \in [1..Cardinality(mine) -> mine] :
     /\ \A i, j \in DOMAIN order : i # j => order[i] # order[j]
     /\ \A i, j \in DOMAIN order :
          i < j => answers[order[i]].created_at >= answers[order[j]].created_at}

\* the scores appended to a bucket: those of its answers that are true
BucketScores(bucket_answers) ==
  LET scored == SelectSeq(bucket_answers,
                          LAMBDA id : Truthy(answers[id].confidence_score))
  IN [i \in DOMAIN scored |-> answers[scored[i]].confidence_score[1]]

\* one bucket of _get_weekly_progress or _get_category_performance
Bucket(bucket_answers) ==
  LET scores == BucketScores(bucket_answers) IN
  [questions_attempted |-> Len(bucket_answers),
   average_score |-> IF scores # <<>> THEN RatDivInt(sum(scores), Len(scores))
                     ELSE Zero]

\* the keys of a defaultdict, in the order they were first used
RECURSIVE FirstUsed(_)
FirstUsed(keys) ==
  IF keys = <<>> THEN <<>>
  ELSE LET before == FirstUsed(SubSeq(keys, 1, Len(keys) - 1)) IN
       IF \E i \in DOMAIN before : before[i] = keys[Len(keys)]
       THEN before
       ELSE Append(before, keys[Len(keys)])

DaysPerWeek == 7

\* created_at.date() - timedelta(days=created_at.weekday()), with day 1 a
\* Monday
week_start(created_at) == created_at - ((created_at - 1) % DaysPerWeek)

\* a list of [week, questions_attempted, average_score], a week per item
get_weekly_progress(order) ==
  LET weeks == FirstUsed([i \in DOMAIN order |-> week_start(answers[order[i]].created_at)])
  IN [w \in DOMAIN weeks |->
        [week |-> weeks[w]] @@
        Bucket(SelectSeq(order,
                         LAMBDA id : week_start(answers[id].created_at) = weeks[w]))]

\* the answers whose question is stored
OfStoredQuestion(order) ==
  SelectSeq(order, LAMBDA id : answers[id].question_id \in DOMAIN questions)

\* a dict category -> [questions_attempted, average_score]: items lists the
\* categories in the order of the dict
get_category_performance(order) ==
  LET known == OfStoredQuestion(order)
      category(id) == questions[answers[id].question_id].category
      items == FirstUsed([i \in DOMAIN known |-> category(known[i])])
  IN [items |-> items,
      data |-> [c \in {items[i] : i \in DOMAIN items} |->
                  Bucket(SelectSeq(known, LAMBDA id : category(id) = c))]]

\* order: the order the user's answers were read in
get_user_statistics(user_id, order) ==
  LET confidence_scores == BucketScores(order) IN
  [total_questions_attempted |-> Len(order),
   questions_completed |->
     Cardinality({key \in DOMAIN progress :
                    key[1] = user_id /\ progress[key].status = "completed"}),
   average_confidence_score |->
     IF confidence_scores # <<>>
     THEN RatDivInt(sum(confidence_scores), Len(confidence_scores))
     ELSE Zero,
   weekly_progress |-> get_weekly_progress(order),
   category_performance |-> get_category_performance(order)]

\* The place of a category in a list in ascending order of average_score:
\* after every category whose score is not higher (the sort is stable)
InsertByScore(sorted, category, data) ==
  LET before == Cardinality({i \in DOMAIN sorted :
                               ~RatLess(data[category].average_score,
                                        data[sorted[i]].average_score)})
  IN SubSeq(sorted, 1, before) \o <<category>>
       \o SubSeq(sorted, before + 1, Len(sorted))

\* sorted(category_performance.items(), key=lambda x: x[1]["average_score"])
RECURSIVE sorted_categories(_, _)
sorted_categories(items, data) ==
  IF items = <<>> THEN <<>>
  ELSE InsertByScore(sorted_categories(SubSeq(items, 1, Len(items) - 1), data),
                     items[Len(items)], data)

\* SELECT q.* FROM interview_questions q LEFT JOIN question_progress p ON
\* p.question_id = q.id AND p.user_id = %s WHERE q.category = %s AND p.id IS
\* NULL LIMIT %s: no statement writes question_progress.id, so p.id is NULL
\* for every row and the questions attempted are not left out.  The pages
\* the store may answer.
Pages(category, limit) ==
  LET rows == {id \in DOMAIN questions : questions[id].category = category}
      n == IF Cardinality(rows) < limit THEN Cardinality(rows) ELSE limit
  IN {page \in [1..n -> rows] : \A i, j \in 1..n : i # j => page[i] # page[j]}

\* the lists get_recommended_questions may return, for the categories left
RECURSIVE Recommend(_, _)
Recommend(categories, limit) ==
  IF categories = <<>> \/ limit <= 0 THEN {<<>>}
  ELSE UNION {{page \o rest : rest \in Recommend(Tail(categories), limit - Len(page))} :
                page \in Pages(Head(categories), limit)}

get_recommended_questions(stats, limit) ==
  Recommend(sorted_categories(stats.category_performance.items,
                              stats.category_performance.data),
            limit)

FocusAreas == 3
StudyPlanQuestions == 10

\* recommended_practice_time with <= for <
recommended_practice_time_inclusive(average_score) ==
  IF ~RatLess(Rat(3, 5), average_score) THEN "30 minutes" ELSE "15 minutes"

\* "30 minutes" if data["average_score"] < 0.6 else "15 minutes"
recommended_practice_time(average_score) ==
  IF RatLess(average_score, Rat(3, 5)) THEN "30 minutes" ELSE "15 minutes"

calculate_improvement_time(stats) ==
  IF RatLess(Rat(4, 5), stats.average_confidence_score) THEN "1-2 weeks"
  ELSE IF RatLess(Rat(3, 5), stats.average_confidence_score) THEN "2-3 weeks"
  ELSE "4-6 weeks"

\* The service method.  The answers are read twice (get_study_plan and
\* get_recommended_questions each call get_user_statistics), in orders that
\* may differ where created_at ties.
get_study_plan(user_id) ==
  /\ \E order \in UserAnswerOrders(user_id), again \in UserAnswerOrders(user_id) :
     \E stats \in {get_user_statistics(user_id, order)} :
     \E weak_categories \in
          {SliceTo(sorted_categories(stats.category_performance.items,
                                     stats.category_performance.data),
                   FocusAreas)} :
     \E recommended_questions \in
          get_recommended_questions(get_user_statistics(user_id, again),
                                    StudyPlanQuestions) :
       resp' = Response("get_study_plan", 200, NoToken, Nobody, user_id,
                 [focus_areas |->
                    [i \in DOMAIN weak_categories |->
                       LET data == stats.category_performance.data[weak_categories[i]]
                       IN [category |-> weak_categories[i],
                           current_score |-> data.average_score,
                           recommended_practice_time |->
                             recommended_practice_time(data.average_score)]],
                  recommended_questions |-> recommended_questions,
                  daily_goals |-> Len(weak_categories),
                  estimated_improvement_time |-> calculate_improvement_time(stats)])
  /\ UNCHANGED <<store, defaults, supplied, calls>>

\* The service method get_user_statistics, called on its own
user_statistics(user_id) ==
  /\ \E order \in UserAnswerOrders(user_id) :
       resp' = Response("get_user_statistics", 200, NoToken, Nobody,
                        [user_id |-> user_id, order |-> order],
                        get_user_statistics(user_id, order))
  /\ UNCHANGED <<store, defaults, supplied, calls>>

----------------------------------------------------------------------------
(* routes/media_routes.py *)

\* f"uploads/{current_user.id}/{filename}"
ObjectKey(user_id, filename) == <<"uploads", user_id, filename>>

\* uuid4(): a value that is not in use
Unused(ids, used) == ids \ used

UsedFilenames ==
  {media_files[id].filename : id \in DOMAIN media_files} \cup {key[3] : key \in bucket}

MediaRow(user_id, filename, category) ==
  [user_id |-> user_id, filename |-> filename, category |-> category]

\* upload_file with the metadata row written before the upload is tried
upload_file_metadata_first(token, category, ids, filenames) ==
  \/ Unauthorized("upload_file", token)
  \/ \E current_user \in get_current_user(token),
        unique_filename \in Unused(filenames, UsedFilenames),
        id \in Unused(ids, DOMAIN media_files) :
       /\ media_files' =
            Insert(media_files, id, MediaRow(current_user, unique_filename, category))
       /\ \/ /\ bucket' = bucket \cup {ObjectKey(current_user, unique_filename)}
             /\ resp' = Response("upload_file", 200, token, current_user, Null, unique_filename)
          \/ /\ UNCHANGED bucket
             /\ resp' = Response("upload_file", 500, token, current_user, Null, Null)
       /\ UNCHANGED <<users, questions, answers, progress, applications, defaults,
                      supplied, calls>>

upload_file(token, category, ids, filenames) ==
  \/ Unauthorized("upload_file", token)
  \/ \E current_user \in get_current_user(token),
        unique_filename \in Unused(filenames, UsedFilenames) :
       /\ \/ \* s3_client.upload_fileobj returns
             \E id \in Unused(ids, DOMAIN media_files) :
               /\ bucket' = bucket \cup {ObjectKey(current_user, unique_filename)}
               /\ media_files' =
                    Insert(media_files, id,
                           MediaRow(current_user, unique_filename, category))
               /\ resp' = Response("upload_file", 200, token, current_user, Null,
                                   unique_filename)
          \/ \* s3_client.upload_fileobj raises
             /\ UNCHANGED <<bucket, media_files>>
             /\ resp' = Response("upload_file", 500, token, current_user, Null, Null)
       /\ UNCHANGED <<users, questions, answers, progress, applications, defaults,
                      supplied, calls>>

\* SELECT * FROM media_files WHERE user_id = %s [AND category = %s]
ListedFiles(user_id, category) ==
  {id \in DOMAIN media_files :
     /\ media_files[id].user_id = user_id
     /\ category # Null => media_files[id].category = category[1]}

list_files(token, category) ==
  \/ Unauthorized("list_files", token)
  \/ \E current_user \in get_current_user(token) :
       /\ resp' = Response("list_files", 200, token, current_user, category,
                           ListedFiles(current_user, category))
       /\ UNCHANGED <<store, defaults, supplied, calls>>

\* the row lookup with the user_id condition left out
FileInfo_of_any_user(file_id, user_id) ==
  {id \in DOMAIN media_files : id = file_id}

\* SELECT * FROM media_files WHERE id = %s AND user_id = %s
FileInfo(file_id, user_id) ==
  {id \in DOMAIN media_files : id = file_id /\ media_files[id].user_id = user_id}

get_file(token, file_id) ==
  \/ Unauthorized("get_file", token)
  \/ \E current_user \in get_current_user(token) :
       /\ IF FileInfo(file_id, current_user) = {}
          THEN resp' = Response("get_file", 404, token, current_user, file_id, Null)
          ELSE \/ \* generate_presigned_url returns
                  resp' = Response("get_file", 200, token, current_user, file_id,
                                   ObjectKey(current_user, media_files[file_id].filename))
               \/ \* generate_presigned_url raises
                  resp' = Response("get_file", 500, token, current_user, file_id, Null)
       /\ UNCHANGED <<store, defaults, supplied, calls>>

\* delete_file with the metadata row deleted whether or not delete_object raised
delete_file_error_swallowed(token, file_id) ==
  \/ Unauthorized("delete_file", token)
  \/ \E current_user \in get_current_user(token) :
       /\ IF FileInfo(file_id, current_user) = {}
          THEN /\ resp' = Response("delete_file", 404, token, current_user, file_id, Null)
               /\ UNCHANGED <<bucket, media_files>>
          ELSE LET key == ObjectKey(current_user, media_files[file_id].filename) IN
               /\ media_files' = [id \in DOMAIN media_files \ {file_id} |-> media_files[id]]
               /\ \/ /\ bucket' = bucket \ {key}
                     /\ resp' = Response("delete_file", 200, token, current_user, file_id, Null)
                  \/ /\ UNCHANGED bucket
                     /\ resp' = Response("delete_file", 500, token, current_user, file_id, Null)
       /\ UNCHANGED <<users, questions, answers, progress, applications, defaults,
                      supplied, calls>>

delete_file(token, file_id) ==
  \/ Unauthorized("delete_file", token)
  \/ \E current_user \in get_current_user(token) :
       /\ IF FileInfo(file_id, current_user) = {}
          THEN /\ resp' = Response("delete_file", 404, token, current_user, file_id, Null)
               /\ UNCHANGED <<bucket, media_files>>
          ELSE LET key == ObjectKey(current_user, media_files[file_id].filename) IN
               \/ \* s3_client.delete_object returns
                  /\ bucket' = bucket \ {key}
                  /\ media_files' =
                       [id \in DOMAIN media_files \ {file_id} |-> media_files[id]]
                  /\ resp' = Response("delete_file", 200, token, current_user, file_id, Null)
               \/ \* s3_client.delete_object raises
                  /\ UNCHANGED <<bucket, media_files>>
                  /\ resp' = Response("delete_file", 500, token, current_user, file_id, Null)
       /\ UNCHANGED <<users, questions, answers, progress, applications, defaults,
                      supplied, calls>>

----------------------------------------------------------------------------
(* services/voice_service.py *)

\* the keyword test with the strings compared as they are
Mentioned_case_sensitive(keyword, transcript) == Contains(keyword, transcript)

\* keyword.lower() in transcript.lower()
Mentioned(keyword, transcript) == Contains(lower(keyword), lower(transcript))

\* the first sentence of _generate_feedback
FeedbackBand(score) ==
  IF ~RatLess(score, Rat(4, 5)) THEN "excellent"
  ELSE IF ~RatLess(score, Rat(3, 5)) THEN "good"
  ELSE "review"

analyze_interview_response(transcript, question_id) ==
  LET arg == [transcript |-> transcript, question_id |-> question_id] IN
  /\ IF question_id \notin DOMAIN questions
     THEN resp' = Response("analyze_interview_response", 200, NoToken, Nobody, arg,
                           [score |-> Zero, feedback |-> "Question not found",
                            keywords_mentioned |-> <<>>, missing_keywords |-> <<>>])
     ELSE LET keywords == questions[question_id].keywords
              keywords_mentioned ==
                SelectSeq(keywords, LAMBDA keyword : Mentioned(keyword, transcript))
              missing_keywords ==
                SelectSeq(keywords, LAMBDA keyword : ~Mentioned(keyword, transcript))
              keyword_score ==
                IF keywords # <<>>
                THEN Rat(Len(keywords_mentioned), Len(keywords))
                ELSE Zero
          IN resp' = Response("analyze_interview_response", 200, NoToken, Nobody, arg,
                              [score |-> keyword_score,
                               feedback |-> FeedbackBand(keyword_score),
                               keywords_mentioned |-> keywords_mentioned,
                               missing_keywords |-> missing_keywords])
  /\ UNCHANGED <<store, defaults, supplied, calls>>

----------------------------------------------------------------------------
(* services/job_service.py, routes/job_routes.py *)

LimitCap == 50

\* JobPosting(...) of fetch_linkedin_jobs: every field but salary_range is
\* passed.  salary_range is Optional[str] with no default, which the installed
\* pydantic (not pinned by the repository) either defaults to None or
\* requires: defaults.optional_is_required says which.  Null: it raised.
fetch_linkedin_jobs(response) ==
  IF response = Null THEN Some(<<>>)
  ELSE IF response[1] # <<>> /\ defaults.optional_is_required THEN Null
  ELSE Some([i \in DOMAIN response[1] |->
               [title |-> response[1][i].title, source |-> "linkedin",
                skills_required |-> response[1][i].skills]])

\* JobPosting(...) of fetch_indeed_jobs: requirements, a required field, is
\* not passed, so the first result raises a validation error.
fetch_indeed_jobs(response) ==
  IF response = Null \/ response[1] = <<>> THEN Some(<<>>) ELSE Null

calculate_relevance(job, user_skills) ==
  Cardinality({i \in DOMAIN user_skills :
                 \E r \in DOMAIN job.skills_required :
                   Contains(lower(user_skills[i]), lower(job.skills_required[r]))})

\* The place of a job in a list in descending order of relevance: after
\* every job that is at least as relevant (the sort is stable)
InsertByRelevance(sorted, job, user_skills) ==
  LET before == Cardinality({i \in DOMAIN sorted :
                               calculate_relevance(sorted[i], user_skills)
                                 >= calculate_relevance(job, user_skills)})
  IN SubSeq(sorted, 1, before) \o <<job>> \o SubSeq(sorted, before + 1, Len(sorted))

\* sorted(jobs, key=calculate_relevance, reverse=True)
RECURSIVE sort_jobs_by_relevance(_, _)
sort_jobs_by_relevance(jobs, user_skills) ==
  IF jobs = <<>> THEN <<>>
  ELSE InsertByRelevance(
         sort_jobs_by_relevance(SubSeq(jobs, 1, Len(jobs) - 1), user_skills),
         jobs[Len(jobs)], user_skills)

\* Null: it raised
get_recommended_jobs(user_id, limit, linkedin, indeed) ==
  IF user_id \notin DOMAIN users THEN Some(<<>>)
  ELSE LET user_skills == users[user_id].skills
           linkedin_jobs == fetch_linkedin_jobs(linkedin)
           indeed_jobs == fetch_indeed_jobs(indeed)
       IN IF linkedin_jobs = Null \/ indeed_jobs = Null THEN Null
          ELSE Some(SliceTo(sort_jobs_by_relevance(linkedin_jobs[1] \o indeed_jobs[1],
                                                    user_skills),
                            limit))

get_job_recommendations(token, limit, linkedin, indeed) ==
  LET arg == [limit |-> limit, linkedin |-> linkedin, indeed |-> indeed] IN
  \/ Unauthorized("get_job_recommendations", token)
  \/ \E current_user \in get_current_user(token) :
       /\ IF limit > LimitCap
          THEN resp' = Response("get_job_recommendations", 422, token, current_user, arg, Null)
          ELSE LET jobs == get_recommended_jobs(current_user, limit, linkedin, indeed) IN
               IF jobs = Null
               THEN resp' = Response("get_job_recommendations", 500, token, current_user, arg,
                                     Null)
               ELSE resp' = Response("get_job_recommendations", 200, token, current_user, arg,
                                     jobs[1])
       /\ UNCHANGED <<store, defaults, supplied, calls>>

apply_to_job(token, job_id, ids, now) ==
  \/ Unauthorized("apply_to_job", token)
  \/ \E current_user \in get_current_user(token), id \in Unused(ids, DOMAIN applications) :
       /\ applications' =
            Insert(applications, id,
                   [user_id |-> current_user, job_id |-> job_id, status |-> "applied",
                    applied_date |-> now, last_updated |-> now])
       /\ resp' = Response("apply_to_job", 200, token, current_user, job_id, Null)
       /\ UNCHANGED <<users, questions, answers, progress, media_files, bucket,
                      defaults, supplied, calls>>

\* SELECT * FROM job_applications WHERE user_id = %s ORDER BY applied_date DESC
UserApplications(user_id) ==
  LET mine == {id \in DOMAIN applications : applications[id].user_id = user_id} IN
  {order \in [1..Cardinality(mine) -> mine] :
     /\ \A i, j \in DOMAIN order : i # j => order[i] # order[j]
     /\ \A i, j \in DOMAIN order :
          i < j => applications[order[i]].applied_date
                     >= applications[order[j]].applied_date}

get_user_applications(token) ==
  \/ Unauthorized("get_user_applications", token)
  \/ \E current_user \in get_current_user(token) :
     \E order \in UserApplications(current_user) :
       /\ resp' = Response("get_user_applications", 200, token, current_user, Null, order)
       /\ UNCHANGED <<store, defaults, supplied, calls>>

\* UPDATE job_applications SET status = %s, last_updated = %s WHERE id = %s
update_application_status(token, application_id, status, now) ==
  \/ Unauthorized("update_application_status", token)
  \/ \E current_user \in get_current_user(token) :
       /\ applications' =
            [id \in DOMAIN applications |->
               IF id = application_id
               THEN [applications[id] EXCEPT !.status = status, !.last_updated = now]
               ELSE applications[id]]
       /\ resp' = Response("update_application_status", 200, token, current_user,
                           application_id, Null)
       /\ UNCHANGED <<users, questions, answers, progress, media_files, bucket,
                      defaults, supplied, calls>>

\* search_jobs: the keywords go to the job boards; the postings fetched are
\* returned in fetched order
search_jobs(token, linkedin, indeed) ==
  LET arg == [linkedin |-> linkedin, indeed |-> indeed] IN
  \/ Unauthorized("search_jobs", token)
  \/ \E current_user \in get_current_user(token) :
       /\ LET linkedin_jobs == fetch_linkedin_jobs(linkedin)
              indeed_jobs == fetch_indeed_jobs(indeed)
          IN IF linkedin_jobs = Null \/ indeed_jobs = Null
             THEN resp' = Response("search_jobs", 500, token, current_user, arg, Null)
             ELSE resp' = Response("search_jobs", 200, token, current_user, arg,
                                   linkedin_jobs[1] \o indeed_jobs[1])
       /\ UNCHANGED <<store, defaults, supplied, calls>>

----------------------------------------------------------------------------
(* The read-only routes, like_question and main.py *)

\* SELECT progress FROM users WHERE id = %s: no route writes the column
get_progress(token) ==
  \/ Unauthorized("get_progress", token)
  \/ \E current_user \in get_current_user(token) :
       /\ resp' = Response("get_progress", 200, token, current_user, Null, Null)
       /\ UNCHANGED <<store, defaults, supplied, calls>>

\* SELECT * FROM interview_questions [WHERE category = %s] LIMIT {limit}: the
\* store rejects a limit that is not positive, and picks the rows of the page
get_questions(token, category, limit) ==
  LET arg == [category |-> category, limit |-> limit]
      matching == {id \in DOMAIN questions :
                     category = Null \/ questions[id].category = category[1]}
  IN
  \/ Unauthorized("get_questions", token)
  \/ \E current_user \in get_current_user(token) :
       /\ \/ /\ limit > LimitCap
             /\ resp' = Response("get_questions", 422, token, current_user, arg, Null)
          \/ /\ limit <= LimitCap
             /\ limit < 1
             /\ resp' = Response("get_questions", 500, token, current_user, arg, Null)
          \/ /\ limit <= LimitCap
             /\ limit >= 1
             /\ \E page \in SUBSET matching :
                  /\ \/ Cardinality(page) = limit
                     \/ Cardinality(page) < limit /\ page = matching
                  /\ resp' = Response("get_questions", 200, token, current_user, arg, page)
       /\ UNCHANGED <<store, defaults, supplied, calls>>

\* QuestionProgress(**row): mastery_level is a float, and a row that holds
\* none is refused
get_user_progress(token) ==
  \/ Unauthorized("get_user_progress", token)
  \/ \E current_user \in get_current_user(token) :
       /\ LET rows == {key \in DOMAIN progress : key[1] = current_user} IN
          IF \E key \in rows : progress[key].mastery_level = Null
          THEN resp' = Response("get_user_progress", 500, token, current_user, Null, Null)
          ELSE resp' = Response("get_user_progress", 200, token, current_user, Null, rows)
       /\ UNCHANGED <<store, defaults, supplied, calls>>

\* SET likes = 1
Liked_once(row) == [row EXCEPT !.likes = 1]

\* SET likes = likes + 1: one statement, which the store executes on the row
\* as it is
Liked(row) == [row EXCEPT !.likes = @ + 1]

\* like_question without the dependency on get_current_user
like_question_open(token, question_id) ==
  /\ questions' = [id \in DOMAIN questions |->
                     IF id = question_id THEN Liked(questions[id])
                     ELSE questions[id]]
  /\ resp' = Response("like_question", 200, token, Nobody, question_id, Null)
  /\ UNCHANGED <<users, answers, progress, media_files, bucket, applications,
                 defaults, supplied, calls>>

\* UPDATE interview_questions SET likes = likes + 1 WHERE id = %s
like_question(token, question_id) ==
  \/ Unauthorized("like_question", token)
  \/ \E current_user \in get_current_user(token) :
       /\ questions' = [id \in DOMAIN questions |->
                          IF id = question_id THEN Liked(questions[id])
                          ELSE questions[id]]
       /\ resp' = Response("like_question", 200, token, current_user, question_id, Null)
       /\ UNCHANGED <<users, answers, progress, media_files, bucket, applications,
                      defaults, supplied, calls>>

\* GET /: no dependency on get_current_user, whatever the request carries
read_root(token) ==
  /\ resp' = Response("read_root", 200, token, Nobody, Null, "Welcome")
  /\ UNCHANGED <<store, defaults, supplied, calls>>

----------------------------------------------------------------------------
(* Requests served at the same time.  Several processes serve the one store, *)
(* and a handler is a sequence of statements, each executed by the store on  *)
(* its own; calls holds, for each request in service, the statement it is    *)
(* at (pc) and what it has read.                                             *)

MaxCalls == 3
Calls == 1..MaxCalls

\* the call goes on to its next statement, or ends
Goes(call, fields) == [c \in DOMAIN calls |-> IF c = call THEN fields ELSE calls[c]]

\* like_question: the dependency on get_current_user is resolved
like_question_begin(call, token, question_id) ==
  /\ call \notin DOMAIN calls
  /\ \/ Unauthorized("like_question", token)
     \/ \E current_user \in get_current_user(token) :
          /\ calls' = Insert(calls, call,
                             [op |-> "like_question", pc |-> "update",
                              token |-> token, user |-> current_user,
                              question_id |-> question_id])
          /\ UNCHANGED <<store, defaults, resp, supplied>>

\* like_question: the UPDATE, and the response
like_question_update(call) ==
  /\ call \in DOMAIN calls
  /\ calls[call].op = "like_question"
  /\ calls[call].pc = "update"
  /\ LET question_id == calls[call].question_id IN
     /\ questions' = [id \in DOMAIN questions |->
                        IF id = question_id THEN Liked(questions[id])
                        ELSE questions[id]]
     /\ calls' = Goes(call, [calls[call] EXCEPT !.pc = "done"]
                              @@ [updated |-> question_id \in DOMAIN questions])
     /\ resp' = Response("like_question", 200, calls[call].token, calls[call].user,
                         question_id, Null)
  /\ UNCHANGED <<users, answers, progress, media_files, bucket, applications,
                 defaults, supplied>>

\* update_mastery_level: the SELECT of the progress row
update_mastery_level_select(call, user_id, question_id, confidence_score) ==
  LET key == <<user_id, question_id>> IN
  /\ call \notin DOMAIN calls
  /\ calls' = Insert(calls, call,
                     [op |-> "update_mastery_level", pc |-> "write", key |-> key,
                      confidence_score |-> confidence_score,
                      current_progress |->
                        IF key \in DOMAIN progress THEN Some(progress[key]) ELSE Null])
  /\ UNCHANGED <<store, defaults, resp, supplied>>

\* update_mastery_level: the UPDATE, with the mastery computed from the row
\* that was read and attempts = attempts + 1 computed by the store, or the
\* INSERT when no row was read
update_mastery_level_write(call, now) ==
  /\ call \in DOMAIN calls
  /\ calls[call].op = "update_mastery_level"
  /\ calls[call].pc = "write"
  /\ LET key == calls[call].key
         confidence_score == calls[call].confidence_score
         arg == [user_id |-> key[1], question_id |-> key[2],
                 confidence_score |-> confidence_score]
     IN
     IF calls[call].current_progress # Null
     THEN LET current_progress == calls[call].current_progress[1] IN
          IF current_progress.mastery_level = Null
          THEN /\ resp' = Response("update_mastery_level", 500, NoToken, Nobody, arg,
                                   Null)
               /\ calls' = Goes(call, [calls[call] EXCEPT !.pc = "raised"])
               /\ UNCHANGED <<progress, supplied>>
          ELSE /\ progress' =
                    [k \in DOMAIN progress |->
                       IF k = key
                       THEN [progress[k] EXCEPT
                               !.mastery_level =
                                  Some(new_mastery(current_progress.mastery_level[1],
                                                   current_progress.attempts,
                                                   confidence_score)),
                               !.attempts = @ + 1,
                               !.last_attempt_date = now]
                       ELSE progress[k]]
               /\ resp' = Response("update_mastery_level", 200, NoToken, Nobody, arg,
                                   Null)
               /\ calls' = Goes(call, [calls[call] EXCEPT !.pc = "done"])
               /\ supplied' = Supply(key, confidence_score)
     ELSE /\ progress' =
               Insert(progress, key,
                      [status |-> "in_progress", attempts |-> 1,
                       mastery_level |-> Some(confidence_score),
                       last_attempt_date |-> now])
          /\ resp' = Response("update_mastery_level", 200, NoToken, Nobody, arg, Null)
          /\ calls' = Goes(call, [calls[call] EXCEPT !.pc = "done"])
          /\ supplied' = Supply(key, confidence_score)
  /\ UNCHANGED <<users, questions, answers, media_files, bucket, applications,
                 defaults>>

\* submit_answer: the dependency on get_current_user, and the SELECT of the
\* question
submit_answer_select_question(call, token, answer) ==
  /\ call \notin DOMAIN calls
  /\ \/ Unauthorized("submit_answer", token)
     \/ \E current_user \in get_current_user(token) :
          IF answer.question_id \notin DOMAIN questions
          THEN /\ resp' = Response("submit_answer", 404, token, current_user, answer,
                                   Null)
               /\ UNCHANGED <<store, defaults, supplied, calls>>
          ELSE /\ calls' = Insert(calls, call,
                                  [op |-> "submit_answer", pc |-> "insert_answer",
                                   token |-> token, user |-> current_user,
                                   answer |-> answer, progress |-> Null])
               /\ UNCHANGED <<store, defaults, resp, supplied>>

\* submit_answer: INSERT INTO user_answers
submit_answer_insert_answer(call) ==
  /\ call \in DOMAIN calls
  /\ calls[call].op = "submit_answer"
  /\ calls[call].pc = "insert_answer"
  /\ answers' = Insert(answers, calls[call].answer.id,
                       AnswerRow(calls[call].user, calls[call].answer))
  /\ calls' = Goes(call, [calls[call] EXCEPT !.pc = "select_progress"])
  /\ UNCHANGED <<users, questions, progress, media_files, bucket, applications,
                 defaults, resp, supplied>>

\* submit_answer: the SELECT of the progress row
submit_answer_select_progress(call) ==
  /\ call \in DOMAIN calls
  /\ calls[call].op = "submit_answer"
  /\ calls[call].pc = "select_progress"
  /\ LET key == <<calls[call].user, calls[call].answer.question_id>> IN
     calls' = Goes(call, [calls[call] EXCEPT
                            !.pc = "write_progress",
                            !.progress = IF key \in DOMAIN progress
                                         THEN Some(progress[key]) ELSE Null])
  /\ UNCHANGED <<store, defaults, resp, supplied>>

\* submit_answer: the UPDATE when a row was read, the INSERT when none was,
\* and the response
submit_answer_write_progress(call) ==
  /\ call \in DOMAIN calls
  /\ calls[call].op = "submit_answer"
  /\ calls[call].pc = "write_progress"
  /\ LET key == <<calls[call].user, calls[call].answer.question_id>>
         created_at == calls[call].answer.created_at
     IN
     /\ progress' =
          IF calls[call].progress # Null
          THEN [k \in DOMAIN progress |->
                  IF k = key THEN NextAttempt(progress[k], created_at)
                  ELSE progress[k]]
          ELSE Insert(progress, key, FirstAttempt(created_at))
     /\ resp' = Response("submit_answer", 200, calls[call].token, calls[call].user,
                         calls[call].answer, Null)
  /\ calls' = Goes(call, [calls[call] EXCEPT !.pc = "done"])
  /\ UNCHANGED <<users, questions, answers, media_files, bucket, applications,
                 defaults, supplied>>

\* register_user: the SELECT by email, and UserInDB(...) with the defaults of
\* the process that serves the request
register_user_select(call, user) ==
  /\ call \notin DOMAIN calls
  /\ IF EmailRegistered(user.email)
     THEN /\ resp' = Response("register_user", 400, NoToken, Nobody, user.email, Null)
          /\ UNCHANGED <<store, defaults, supplied, calls>>
     ELSE /\ calls' = Insert(calls, call,
                             [op |-> "register_user", pc |-> "insert",
                              email |-> user.email, user_in_db |-> UserInDB(user)])
          /\ UNCHANGED <<store, defaults, resp, supplied>>

\* register_user: the INSERT, and the response
register_user_insert(call) ==
  /\ call \in DOMAIN calls
  /\ calls[call].op = "register_user"
  /\ calls[call].pc = "insert"
  /\ LET user_in_db == calls[call].user_in_db IN
     /\ users' = Insert(users, user_in_db.id, UserRow(user_in_db))
     /\ resp' = Response("register_user", 200, NoToken, Nobody, user_in_db.email,
                         user_in_db.id)
  /\ calls' = Goes(call, [calls[call] EXCEPT !.pc = "done"])
  /\ UNCHANGED <<questions, answers, progress, media_files, bucket, applications,
                 defaults, supplied>>

----------------------------------------------------------------------------
(* The user routes *)

UserCreates == [email : Emails, username : Usernames, password : Passwords]

UserDefaults == [UserInDB_id : UserIds, optional_is_required : {FALSE}]

EmptyStore ==
  /\ supplied = EmptyTable
  /\ calls = EmptyTable
  /\ users = EmptyTable
  /\ questions = EmptyTable
  /\ answers = EmptyTable
  /\ progress = EmptyTable
  /\ media_files = EmptyTable
  /\ bucket = {}
  /\ applications = EmptyTable

InitUsers ==
  /\ EmptyStore
  /\ defaults \in UserDefaults
  /\ resp = NoResponse

\* The users routes run as the process that InitUsers starts
NextUsers ==
  \/ \E user \in UserCreates : register_user(user)
  \/ \E n \in Usernames, p \in Passwords : login(n, p)
  \/ \E token \in Tokens : read_users_me(token)
  \/ \E token \in Tokens, user \in UserCreates : update_user(token, user)
  \/ \E d \in UserDefaults : Restart(d)

SpecUsers == InitUsers /\ [][NextUsers]_vars

\* C1: a register_user request whose email is the email of a stored user
\* record is answered 400 and leaves the users table as it was, so no
\* second record with that email is created.
C1_DuplicateEmailConflict ==
  [][\A e \in Emails :
       (/\ resp'.route = "register_user"
        /\ resp'.arg = e
        /\ \E id \in DOMAIN users : users[id].email = e)
       => (resp'.status = 400 /\ users' = users)]_vars

\* a registration was refused while a record with its email is stored
C1_Witness ==
  /\ resp.route = "register_user"
  /\ resp.status = 400
  /\ \E id \in DOMAIN users : users[id].email = resp.arg

----------------------------------------------------------------------------
(* Answers and progress: the interview routes that write user_answers and *)
(* question_progress, and the mastery update of the progress service      *)

Ann == [email |-> "ann@x", username |-> "ann", password |-> "pw"]

InterviewQuestions ==
  [id : {"q1", "q2"}, category : {"python"}, keywords : {<<>>}, likes : {0}]

FirstQuestion ==
  [id : {"q1"}, category : {"python"}, keywords : {<<>>}, likes : {0}]

UserAnswers ==
  [id : {"a1"}, question_id : {"q1"}, confidence_score : {Null}, created_at : Times]
  \cup
  [id : {"a2"}, question_id : {"q2", "q3"}, confidence_score : {Null},
   created_at : {1}]

\* The model stops counting the attempts of a row at MaxAttempts
BelowCap(question_id) ==
  \A key \in DOMAIN progress :
    key[2] = question_id => progress[key].attempts < MaxAttempts

\* One process: user ids default to the one value its import computed
OneProcess == [UserInDB_id |-> "u1", optional_is_required |-> FALSE]

InitInterview ==
  /\ EmptyStore
  /\ defaults = OneProcess
  /\ resp = NoResponse

\* Ann registers, creates the questions q1 and q2 and submits answers to them
\* and to q3, which is never stored; mastery updates for q1 arrive for either
\* user id.
NextInterview ==
  \/ register_user(Ann)
  \/ \E token \in Tokens, question \in InterviewQuestions :
       create_question(token, question)
  \/ \E token \in Tokens, answer \in UserAnswers :
       BelowCap(answer.question_id) /\ submit_answer(token, answer)
  \/ \E u \in UserIds, now \in Times :
       BelowCap("q1") /\ update_mastery_level(u, "q1", Rat(1, 2), now)

SpecInterview == InitInterview /\ [][NextInterview]_vars

----------------------------------------------------------------------------
(* The mastery level of one question, updated with different scores *)

Scores == {Zero, Rat(1, 2), Rat(1, 1)}

FirstAnswers ==
  [id : {"a1"}, question_id : {"q1"}, confidence_score : {Null},
   created_at : {1}]

NextMastery ==
  \/ register_user(Ann)
  \/ \E token \in Tokens, question \in FirstQuestion :
       create_question(token, question)
  \/ \E token \in Tokens, answer \in FirstAnswers :
       BelowCap(answer.question_id) /\ submit_answer(token, answer)
  \/ \E u \in UserIds, s \in Scores :
       BelowCap("q1") /\ update_mastery_level(u, "q1", s, 2)

SpecMastery == InitInterview /\ [][NextMastery]_vars

\* x = y / k, for rationals x and y and an integer k > 0
IsQuotient(x, y, k) == x[1] * y[2] * k = y[1] * x[2]

\* x = (m*a + s) / (a + 1)
IsRunningMean(x, m, a, s) ==
  x[1] * m[2] * s[2] * (a + 1) = x[2] * (m[1] * a * s[2] + s[1] * m[2])

MasteryStep ==
  LET arg == resp'.arg
      key == <<arg.user_id, arg.question_id>>
  IN
  resp'.route = "update_mastery_level" =>
    /\ (key \in DOMAIN progress /\ progress[key].mastery_level # Null) =>
         /\ progress'[key].mastery_level # Null
         /\ IsRunningMean(progress'[key].mastery_level[1],
                          progress[key].mastery_level[1],
                          progress[key].attempts, arg.confidence_score)
         /\ progress'[key].attempts = progress[key].attempts + 1
    /\ key \notin DOMAIN progress =>
         /\ key \in DOMAIN progress'
         /\ progress'[key].attempts = 1
         /\ progress'[key].mastery_level = Some(arg.confidence_score)

\* a row that only update_mastery_level calls have written: every attempt
\* counted on it is one of the scores passed
OnlyMasteryUpdates(key) ==
  /\ key \in DOMAIN supplied
  /\ progress[key].attempts = supplied[key].n

MeanOfScores ==
  \A key \in DOMAIN progress :
    OnlyMasteryUpdates(key) =>
      /\ progress[key].mastery_level # Null
      /\ IsQuotient(progress[key].mastery_level[1], supplied[key].sum,
                    supplied[key].n)

\* C2: update_mastery_level on a row with attempts a and mastery m leaves
\* mastery (m*a + s)/(a + 1) and attempts a + 1; on a missing row it creates
\* one with attempts 1 and mastery s; so after k calls with scores s1..sk,
\* starting from no row, mastery is (s1 + ... + sk)/k and attempts is k.
C2_RunningMean == [][MasteryStep]_vars /\ []MeanOfScores

\* three update_mastery_level calls on one row, with scores that are not
\* all the same
C2_Witness ==
  \E key \in DOMAIN progress :
    /\ OnlyMasteryUpdates(key)
    /\ progress[key].attempts = 3
    /\ progress[key].mastery_level \notin {Some(s) : s \in Scores}

SubmitStep ==
  LET answer == resp'.arg
      key == <<resp'.user, answer.question_id>>
  IN
  (resp'.route = "submit_answer" /\ resp'.status # 401) =>
    /\ resp'.status = 200 <=> answer.question_id \in DOMAIN questions
    /\ resp'.status = 200 =>
         \* one answer row is written
         /\ DOMAIN answers' = DOMAIN answers \cup {answer.id}
         /\ \A id \in DOMAIN answers \ {answer.id} : answers'[id] = answers[id]
         /\ answers'[answer.id].user_id = resp'.user
         /\ answers'[answer.id].question_id = answer.question_id
         \* the progress row of (u, q) is upserted
         /\ DOMAIN progress' = DOMAIN progress \cup {key}
         /\ IF key \in DOMAIN progress
            THEN /\ progress'[key].attempts = progress[key].attempts + 1
                 /\ progress'[key].last_attempt_date = answer.created_at
                 /\ progress'[key].status = progress[key].status
                 /\ progress'[key].mastery_level = progress[key].mastery_level
            ELSE /\ progress'[key].status = "in_progress"
                 /\ progress'[key].attempts = 1
         \* every other progress row is as it was
         /\ \A other \in DOMAIN progress \ {key} : progress'[other] = progress[other]

\* C3: a successful submit_answer by user u for a stored question q writes one
\* answer row and upserts the progress row of (u, q): a stored row gets
\* attempts + 1 and last_attempt_date = the answer's created_at, its status and
\* mastery_level kept; a missing row is created with status in_progress and
\* attempts 1; the progress rows of the other pairs are unchanged.
C3_SubmitUpsertsProgress == [][SubmitStep]_vars

\* a submission that found a progress row with a mastery level, while another
\* pair has a progress row too
C3_Witness ==
  /\ resp.route = "submit_answer"
  /\ resp.status = 200
  /\ LET key == <<resp.user, resp.arg.question_id>> IN
     /\ progress[key].attempts > 1
     /\ progress[key].mastery_level # Null
     /\ progress[key].last_attempt_date = resp.arg.created_at
     /\ DOMAIN progress # {key}

NotFoundStep ==
  (/\ resp'.route = "submit_answer"
   /\ resp'.status # 401
   /\ resp'.arg.question_id \notin DOMAIN questions)
  => /\ resp'.status = 404
     /\ answers' = answers
     /\ progress' = progress

AnswersReferenceQuestions ==
  \A id \in DOMAIN answers : answers[id].question_id \in DOMAIN questions

\* C4: submit_answer for a question_id that no stored question has is answered
\* 404 and writes no answer row and no progress row; so every stored answer
\* references a stored question.
C4_AnswersReferenceQuestions ==
  [][NotFoundStep]_vars /\ []AnswersReferenceQuestions

\* a submission was refused for a question that is not stored, while an
\* earlier answer is stored
C4_Witness ==
  /\ resp.route = "submit_answer"
  /\ resp.status = 404
  /\ resp.arg.question_id \notin DOMAIN questions
  /\ DOMAIN answers # {}

----------------------------------------------------------------------------
(* Media: two people upload, list, fetch and delete files *)

People ==
  {Ann, [email |-> "bob@x", username |-> "bob", password |-> "pw"]}

FileIds == {"m1", "m2"}
Filenames == {"f1", "f2"}
Categories == {"cv"}

InitMedia ==
  /\ EmptyStore
  /\ defaults \in UserDefaults
  /\ resp = NoResponse

NextMedia ==
  \/ \E user \in People : register_user(user)
  \/ \E d \in UserDefaults : Restart(d)
  \/ \E token \in Tokens, category \in Categories :
       upload_file(token, category, FileIds, Filenames)
  \/ \E token \in Tokens, category \in {Null} \cup {Some(c) : c \in Categories} :
       list_files(token, category)
  \/ \E token \in Tokens, file_id \in FileIds : get_file(token, file_id)
  \/ \E token \in Tokens, file_id \in FileIds : delete_file(token, file_id)

SpecMedia == InitMedia /\ [][NextMedia]_vars

\* the metadata rows that a step removed
RemovedFiles == DOMAIN media_files \ DOMAIN media_files'

DeleteFailureStep ==
  /\ (resp'.route = "delete_file" /\ resp'.status = 500) =>
       /\ media_files' = media_files
       /\ \E u \in UserIds : u = resp'.user /\ resp'.arg \in ListedFiles(u, Null)'
  /\ \A id \in RemovedFiles :
       /\ resp'.route = "delete_file"
       /\ resp'.status = 200
       /\ resp'.arg = id
       /\ ObjectKey(resp'.user, media_files[id].filename) \notin bucket'

\* C5: when the storage delete of delete_file fails the request ends 500 and
\* the metadata row is still stored and listed; a metadata row is removed
\* only by a delete_file whose storage delete succeeded.
C5_FailedDeleteKeepsMetadata == [][DeleteFailureStep]_vars

\* a delete failed at the storage layer and the file is still listed
C5_Witness ==
  /\ resp.route = "delete_file"
  /\ resp.status = 500
  /\ resp.arg \in ListedFiles(resp.user, Null)

UploadFailureStep ==
  (resp'.route = "upload_file" /\ resp'.status = 500) => media_files' = media_files

\* C6: when the storage upload of upload_file fails the request ends 500 and
\* the media_files rows are the same as before the request.
C6_FailedUploadWritesNoMetadata == [][UploadFailureStep]_vars

\* an upload failed at the storage layer while another file is stored
C6_Witness ==
  /\ resp.route = "upload_file"
  /\ resp.status = 500
  /\ DOMAIN media_files # {}

NotOwnerStep ==
  /\ (/\ resp'.route \in {"get_file", "delete_file"}
      /\ resp'.status # 401
      /\ resp'.arg \in DOMAIN media_files
      /\ media_files[resp'.arg].user_id # resp'.user)
     => /\ resp'.status = 404
        /\ resp'.out = Null
        /\ bucket' = bucket
        /\ media_files' = media_files
  /\ (resp'.route = "get_file" /\ resp'.status = 200) =>
       /\ resp'.arg \in DOMAIN media_files
       /\ media_files[resp'.arg].user_id = resp'.user
  /\ \A id \in RemovedFiles : media_files[id].user_id = resp'.user

\* C7: get_file and delete_file of a file by a user who is not the user_id of
\* its metadata row end 404, return no URL, delete no object and remove no
\* row; a URL is returned, and a row removed, only for the owner.
C7_OnlyOwnerReadsOrDeletes == [][NotOwnerStep]_vars

\* a user asked to delete a stored file of another user and got 404
C7_Witness ==
  /\ resp.route = "delete_file"
  /\ resp.status = 404
  /\ resp.arg \in DOMAIN media_files
  /\ media_files[resp.arg].user_id # resp.user
  /\ resp.user \in DOMAIN users
  /\ media_files[resp.arg].user_id \in DOMAIN users

----------------------------------------------------------------------------
(* Keyword coverage: questions with keyword lists, transcripts analysed *)

Letters == {"a", "A", "b"}
Vocabulary == {<<"a">>, <<"A", "b">>, <<"b", "b">>}
Transcripts == SeqsUpTo(Letters, MaxTranscriptLen)

VoiceQuestions ==
  [id : {"q1"}, category : {"python"}, keywords : SeqsUpTo(Vocabulary, MaxKeywords),
   likes : {0}]

InitVoice ==
  /\ EmptyStore
  /\ defaults = OneProcess
  /\ resp = NoResponse

NextVoice ==
  \/ register_user(Ann)
  \/ \E token \in {NoToken, create_access_token("ann")}, question \in VoiceQuestions :
       create_question(token, question)
  \/ \E transcript \in Transcripts, question_id \in {"q1", "q2"} :
       analyze_interview_response(transcript, question_id)

SpecVoice == InitVoice /\ [][NextVoice]_vars

\* a and b are the same letter, whatever their case
SameLetter(a, b) ==
  \/ a = b
  \/ \E i \in DOMAIN UpperCase : {a, b} = {UpperCase[i], LowerCase[i]}

\* keyword occurs in transcript as a case-insensitive substring
Occurs(keyword, transcript) ==
  \E offset \in 0..(Len(transcript) - Len(keyword)) :
    \A j \in 1..Len(keyword) : SameLetter(keyword[j], transcript[offset + j])

\* seq holds keywords[i] for exactly the indices i of idx, in increasing order
IsSelection(seq, keywords, idx) ==
  /\ Len(seq) = Cardinality(idx)
  /\ \E f \in [1..Len(seq) -> idx] :
       /\ \A i, j \in 1..Len(seq) : i < j => f[i] < f[j]
       /\ \A i \in 1..Len(seq) : seq[i] = keywords[f[i]]

CoverageStep ==
  LET arg == resp'.arg
      out == resp'.out
  IN
  (resp'.route = "analyze_interview_response" /\ arg.question_id \in DOMAIN questions) =>
    LET keywords == questions[arg.question_id].keywords
        n == Len(keywords)
        found == {i \in 1..n : Occurs(keywords[i], arg.transcript)}
        k == Cardinality(found)
    IN
    /\ resp'.status = 200
    /\ IF n = 0 THEN out.score = Zero ELSE out.score[1] * n = k * out.score[2]
    /\ IsSelection(out.keywords_mentioned, keywords, found)
    /\ IsSelection(out.missing_keywords, keywords, (1..n) \ found)

\* C9: for a stored question with n keywords of which k occur in the
\* transcript as case-insensitive substrings, analyze_interview_response
\* returns score k/n, keywords_mentioned = those k keywords and
\* missing_keywords = the other n - k, both in the question's order; with
\* n = 0 the score is 0 and nothing is raised.
C9_KeywordCoverage == [][CoverageStep]_vars

\* an analysis that found one keyword only through case folding and missed
\* another
C9_Witness ==
  /\ resp.route = "analyze_interview_response"
  /\ resp.arg.question_id \in DOMAIN questions
  /\ resp.out.score = Rat(1, 2)
  /\ \E i \in 1..Len(resp.out.keywords_mentioned) :
       ~Contains(resp.out.keywords_mentioned[i], resp.arg.transcript)

----------------------------------------------------------------------------
(* Job recommendations *)

MaxSkills == 2
MaxJobs == 2
MaxLimit == 2

SkillWords == {<<"p", "y">>, <<"s">>}
Unrelated == <<<<"j">>>>
PythonAndSql == <<<<"P", "y">>, <<"s", "q">>>>
SkillLists == SeqsUpTo(SkillWords, MaxSkills)

\* the elements of a LinkedIn answer, and the answers: Null is a status other
\* than 200
LinkedInElements ==
  {[title |-> "P1", skills |-> PythonAndSql], [title |-> "P2", skills |-> Unrelated],
   [title |-> "P2", skills |-> PythonAndSql]}
LinkedInResponses == {Null} \cup {Some(e) : e \in SeqsUpTo(LinkedInElements, MaxJobs)}
IndeedResponses == {Null, Some(<<>>), Some(<<[title |-> "I1"]>>)}
Limits == (-1..MaxLimit) \cup {LimitCap + 1}

Builds == [UserInDB_id : {"u1"}, optional_is_required : BOOLEAN]

InitJobs ==
  /\ EmptyStore
  /\ defaults \in Builds
  /\ resp = NoResponse

NextJobs ==
  \/ register_user(Ann)
  \/ \E skills \in SkillLists : update_skills(create_access_token("ann"), skills)
  \/ \E token \in {NoToken, create_access_token("ann")}, limit \in Limits,
        linkedin \in LinkedInResponses, indeed \in IndeedResponses :
       get_job_recommendations(token, limit, linkedin, indeed)

SpecJobs == InitJobs /\ [][NextJobs]_vars

\* the number of the user's skills that occur, whatever the case, in one of
\* the posting's required skills
Relevance(job, user_skills) ==
  Cardinality({i \in DOMAIN user_skills :
                 \E r \in DOMAIN job.skills_required :
                   Occurs(user_skills[i], job.skills_required[r])})

\* the postings the two providers answered, LinkedIn's first
Fetched(arg) ==
  (IF arg.linkedin = Null THEN <<>>
   ELSE [i \in DOMAIN arg.linkedin[1] |->
           [title |-> arg.linkedin[1][i].title, source |-> "linkedin",
            skills_required |-> arg.linkedin[1][i].skills]])
  \o (IF arg.indeed = Null THEN <<>>
      ELSE [i \in DOMAIN arg.indeed[1] |->
              [title |-> arg.indeed[1][i].title, source |-> "indeed",
               skills_required |-> <<>>]])

Recommended ==
  /\ resp.route = "get_job_recommendations"
  /\ resp.status = 200

\* no more postings than limit, and none when limit is negative
AtMostLimit ==
  Recommended => Len(resp.out) <= (IF resp.arg.limit < 0 THEN 0 ELSE resp.arg.limit)

NonIncreasingRelevance ==
  Recommended =>
    \A i, j \in DOMAIN resp.out :
      i < j => Relevance(resp.out[i], users[resp.user].skills)
                 >= Relevance(resp.out[j], users[resp.user].skills)

\* the postings returned are postings fetched, and two of equal relevance
\* are in the order they were fetched in
StableTies ==
  Recommended =>
    \E f \in [DOMAIN resp.out -> DOMAIN Fetched(resp.arg)] :
      /\ \A i \in DOMAIN resp.out : Fetched(resp.arg)[f[i]] = resp.out[i]
      /\ \A i, j \in DOMAIN resp.out : i # j => f[i] # f[j]
      /\ \A i, j \in DOMAIN resp.out :
           (i < j /\ Relevance(resp.out[i], users[resp.user].skills)
                       = Relevance(resp.out[j], users[resp.user].skills))
             => f[i] < f[j]

\* C10: get_recommended_jobs returns at most limit postings, in order of
\* non-increasing relevance (the number of the user's skills that are a
\* case-insensitive substring of one of the posting's skills_required), and
\* postings of equal relevance keep their order in the concatenation of the
\* first provider's postings and the second's.
C10_RankedAtMostLimit == AtMostLimit /\ NonIncreasingRelevance /\ StableTies

\* the ranking without the bound on the number of postings
C10_RankedStably == NonIncreasingRelevance /\ StableTies

----------------------------------------------------------------------------
(* Every route, with and without a token *)

MaxLikes == 2

InitAuth ==
  /\ EmptyStore
  /\ defaults = OneProcess
  /\ resp = NoResponse

BelowLikes(question_id) ==
  question_id \in DOMAIN questions => questions[question_id].likes < MaxLikes

NextAuth ==
  \/ register_user(Ann)
  \/ login("ann", "pw")
  \/ \E token \in Tokens :
       \/ read_root(token)
       \/ read_users_me(token)
       \/ update_user(token, Ann)
       \/ update_skills(token, <<>>)
       \/ get_progress(token)
       \/ \E question \in FirstQuestion : create_question(token, question)
       \/ \E limit \in {0, 1, LimitCap + 1} : get_questions(token, Null, limit)
       \/ \E answer \in FirstAnswers : BelowCap("q1") /\ submit_answer(token, answer)
       \/ get_user_progress(token)
       \/ BelowLikes("q1") /\ like_question(token, "q1")
       \/ upload_file(token, "cv", {"m1"}, {"f1"})
       \/ list_files(token, Null)
       \/ get_file(token, "m1")
       \/ delete_file(token, "m1")
       \/ get_job_recommendations(token, 1, Null, Null)
       \/ apply_to_job(token, "j1", {"p1"}, 1)
       \/ get_user_applications(token)
       \/ update_application_status(token, "p1", "interview", 2)
       \/ search_jobs(token, Null, Null)

SpecAuth == InitAuth /\ [][NextAuth]_vars

\* a request to a route outside open, with a token that is missing, invalid
\* or names no user, is answered 401 and changes nothing stored
RejectedOutside(open) ==
  (resp'.route \notin open \cup {"none"} /\ get_current_user(resp'.token) = {}) =>
    (resp'.status = 401 /\ UNCHANGED store)

\* C8, as stated: every route except register and login requires a valid
\* bearer token; a request with a missing or invalid token to any other
\* route is answered 401 and changes no stored state.
C8_EveryOtherRouteRequiresToken ==
  [][RejectedOutside({"register_user", "login"})]_vars

\* C8: every route except register, login and the welcome route GET /
\* requires a valid bearer token; a request with a missing or invalid token
\* to any other route is answered 401 and changes no stored state.
C8_RoutesRequireToken ==
  [][RejectedOutside({"register_user", "login", "read_root"})]_vars

\* a malformed token was presented to delete a file that is stored, and
\* was refused
C8_Witness ==
  /\ resp.route = "delete_file"
  /\ resp.status = 401
  /\ resp.token = BadToken
  /\ "m1" \in DOMAIN media_files

----------------------------------------------------------------------------
(* The study plan *)

StudyQuestions ==
  {[id |-> "q1", category |-> "python", keywords |-> <<>>, likes |-> 0],
   [id |-> "q2", category |-> "sql", keywords |-> <<>>, likes |-> 0],
   [id |-> "q3", category |-> "design", keywords |-> <<>>, likes |-> 0],
   [id |-> "q4", category |-> "behavioral", keywords |-> <<>>, likes |-> 0]}

StudyScores == {Some(Rat(11, 20)), Some(Rat(3, 5)), Some(Rat(1, 1))}

\* one answer per question, the first two a day before the others
StudyAnswers ==
  [id : {"a1"}, question_id : {"q1"}, confidence_score : StudyScores, created_at : {1}]
  \cup
  [id : {"a2"}, question_id : {"q2"}, confidence_score : StudyScores, created_at : {1}]
  \cup
  [id : {"a3"}, question_id : {"q3"}, confidence_score : StudyScores, created_at : {2}]
  \cup
  [id : {"a4"}, question_id : {"q4"}, confidence_score : StudyScores, created_at : {2}]

NextStudy ==
  \/ register_user(Ann)
  \/ \E question \in StudyQuestions :
       create_question(create_access_token("ann"), question)
  \/ \E answer \in StudyAnswers :
       /\ answer.id \notin DOMAIN answers
       /\ submit_answer(create_access_token("ann"), answer)
  \/ \E user_id \in UserIds : get_study_plan(user_id)

SpecStudy == InitInterview /\ [][NextStudy]_vars

\* the categories of the stored questions the user has answered, and the
\* average score of each
AnsweredCategories(user_id) ==
  {questions[answers[id].question_id].category :
     id \in {a \in DOMAIN answers : /\ answers[a].user_id = user_id
                                    /\ answers[a].question_id \in DOMAIN questions}}

AverageScore(user_id, category) ==
  LET order == CHOOSE o \in UserAnswerOrders(user_id) : TRUE
  IN get_category_performance(order).data[category].average_score

\* C11: get_study_plan lists at most three focus areas, which are the
\* categories with the lowest average_score, in ascending order, and the
\* recommended_practice_time of each is "30 minutes" exactly when its average
\* score is strictly less than 0.6 and "15 minutes" otherwise.
C11_FocusAreas ==
  resp.route = "get_study_plan" =>
    LET focus == resp.out.focus_areas
        user_id == resp.arg
        listed == {focus[i].category : i \in DOMAIN focus}
    IN
    /\ Len(focus) <= 3
    /\ Len(focus) = 3 \/ listed = AnsweredCategories(user_id)
    /\ listed \subseteq AnsweredCategories(user_id)
    /\ \A i, j \in DOMAIN focus : i # j => focus[i].category # focus[j].category
    /\ \A i \in DOMAIN focus :
         /\ focus[i].current_score = AverageScore(user_id, focus[i].category)
         /\ focus[i].recommended_practice_time =
              (IF focus[i].current_score[1] * 5 < 3 * focus[i].current_score[2]
               THEN "30 minutes" ELSE "15 minutes")
    /\ \A i, j \in DOMAIN focus :
         i < j => focus[i].current_score[1] * focus[j].current_score[2]
                    <= focus[j].current_score[1] * focus[i].current_score[2]
    /\ \A c \in AnsweredCategories(user_id) \ listed :
         \A i \in DOMAIN focus : ~RatLess(AverageScore(user_id, c), focus[i].current_score)

\* a plan for four answered categories: three are listed, one at 0.55 with
\* 30 minutes and one at exactly 0.6 with 15 minutes
C11_Witness ==
  /\ resp.route = "get_study_plan"
  /\ Cardinality(AnsweredCategories(resp.arg)) = 4
  /\ Len(resp.out.focus_areas) = 3
  /\ \E i, j \in DOMAIN resp.out.focus_areas :
       /\ resp.out.focus_areas[i].current_score = Rat(11, 20)
       /\ resp.out.focus_areas[i].recommended_practice_time = "30 minutes"
       /\ resp.out.focus_areas[j].current_score = Rat(3, 5)
       /\ resp.out.focus_areas[j].recommended_practice_time = "15 minutes"

----------------------------------------------------------------------------
(* The range of mastery_level *)

InUnitInterval(x) == x[1] >= 0 /\ x[1] <= x[2]

\* C12: with every score passed to update_mastery_level in [0, 1], the
\* mastery_level of every progress row lies in [0, 1] in every reachable
\* state, after any sequence of submit_answer and update_mastery_level calls.
C12_MasteryInUnitInterval ==
  \A key \in DOMAIN progress :
    /\ progress[key].mastery_level # Null
    /\ InUnitInterval(progress[key].mastery_level[1])

\* the mastery levels that are set lie in [0, 1]
C12_SetMasteryInUnitInterval ==
  \A key \in DOMAIN progress :
    progress[key].mastery_level # Null =>
      InUnitInterval(progress[key].mastery_level[1])

----------------------------------------------------------------------------
(* The statistics *)

StatisticsQuestions ==
  {[id |-> "q1", category |-> "python", keywords |-> <<>>, likes |-> 0],
   [id |-> "q2", category |-> "sql", keywords |-> <<>>, likes |-> 0]}

RecordedScores == {Null, Some(Zero), Some(Rat(1, 2)), Some(Rat(1, 1))}

\* two answers to q1, a week apart or not, and one to q2
StatisticsAnswers ==
  [id : {"a1"}, question_id : {"q1"}, confidence_score : RecordedScores,
   created_at : {1}]
  \cup
  [id : {"a2"}, question_id : {"q1"}, confidence_score : RecordedScores,
   created_at : {1, 1 + DaysPerWeek}]
  \cup
  [id : {"a3"}, question_id : {"q2"}, confidence_score : RecordedScores,
   created_at : {1 + DaysPerWeek}]

NextStatistics ==
  \/ register_user(Ann)
  \/ \E question \in StatisticsQuestions :
       create_question(create_access_token("ann"), question)
  \/ \E answer \in StatisticsAnswers :
       /\ answer.id \notin DOMAIN answers
       /\ submit_answer(create_access_token("ann"), answer)
  \/ \E user_id \in UserIds : user_statistics(user_id)

SpecStatistics == InitInterview /\ [][NextStatistics]_vars

\* the sum of the scores recorded on the answers ids
RECURSIVE TotalScore(_)
TotalScore(ids) ==
  IF ids = {} THEN Zero
  ELSE LET id == CHOOSE a \in ids : TRUE
       IN RatAdd(answers[id].confidence_score[1], TotalScore(ids \ {id}))

\* bucket reports the answers ids: their number, and the mean of the scores
\* recorded on those that count, 0 when none does
Reports(bucket_stats, ids, counted) ==
  /\ bucket_stats.questions_attempted = Cardinality(ids)
  /\ IF counted = {} THEN bucket_stats.average_score = Zero
     ELSE bucket_stats.average_score
            = RatDivInt(TotalScore(counted), Cardinality(counted))

\* a recorded score counts, a score of 0 only when zero_counts
Counts(confidence_score, zero_counts) ==
  /\ confidence_score # Null
  /\ zero_counts \/ confidence_score[1] # Zero

\* every weekly bucket and every category bucket of the statistics reports
\* its answers
BucketsReport(zero_counts) ==
  resp.route = "get_user_statistics" =>
    LET mine == {id \in DOMAIN answers : answers[id].user_id = resp.arg.user_id}
        weekly == resp.out.weekly_progress
        performance == resp.out.category_performance.data
    IN
    /\ {weekly[i].week : i \in DOMAIN weekly}
         = {week_start(answers[id].created_at) : id \in mine}
    /\ \A i \in DOMAIN weekly :
         LET ids == {id \in mine : week_start(answers[id].created_at) = weekly[i].week}
         IN Reports(weekly[i], ids, {id \in ids : Counts(answers[id].confidence_score, zero_counts)})
    /\ DOMAIN performance = AnsweredCategories(resp.arg.user_id)
    /\ \A c \in DOMAIN performance :
         LET ids == {id \in mine : /\ answers[id].question_id \in DOMAIN questions
                                   /\ questions[answers[id].question_id].category = c}
         IN Reports(performance[c], ids,
                    {id \in ids : Counts(answers[id].confidence_score, zero_counts)})

\* C13: in get_user_statistics the average_score of each weekly bucket and
\* of each category bucket is the arithmetic mean of every confidence score
\* recorded on the bucket's answers, a score of 0 included, and 0.0 for a
\* bucket in which no answer carries a score; questions_attempted is the
\* number of answers in the bucket.
C13_BucketMeans == BucketsReport(TRUE)

\* the same with the scores of 0 left out of the mean
C13_BucketMeansOfNonZero == BucketsReport(FALSE)

----------------------------------------------------------------------------
(* Records that do not exist *)

\* the last request addressed a question or an application that is not stored
MissingRecordStep ==
  \/ resp'.route = "like_question" /\ resp'.user # Nobody
       /\ resp'.arg \notin DOMAIN questions
  \/ resp'.route = "update_application_status" /\ resp'.user # Nobody
       /\ resp'.arg \notin DOMAIN applications

\* C14: like_question for a question id with no stored question, and
\* update_application_status for an application id with no stored
\* application, answer 404 and create or modify no row.
C14_MissingRecordNotFound ==
  [][MissingRecordStep => (resp'.status = 404 /\ UNCHANGED store)]_vars

\* such a request creates or modifies no row
C14_MissingRecordUnchanged ==
  [][MissingRecordStep => UNCHANGED store]_vars

----------------------------------------------------------------------------
(* The ids of the users *)

\* C15: a successful register_user stores one more user record under an id
\* of its own: after n successful registrations with pairwise distinct
\* emails in one process there are n user records, and no registration
\* overwrites the record of an earlier user.
C15_RegistrationAddsRecord ==
  [][(resp'.route = "register_user" /\ resp'.status = 200) =>
       /\ resp'.out \notin DOMAIN users
       /\ DOMAIN users' = DOMAIN users \cup {resp'.out}
       /\ \A id \in DOMAIN users : users'[id] = users[id]]_vars

----------------------------------------------------------------------------
(* Likes given at the same time *)

NextLikes ==
  \/ register_user(Ann)
  \/ \E question \in FirstQuestion :
       /\ question.id \notin DOMAIN questions
       /\ create_question(create_access_token("ann"), question)
  \/ \E call \in Calls, token \in {NoToken, create_access_token("ann")} :
       like_question_begin(call, token, "q1")
  \/ \E call \in Calls : like_question_update(call)

SpecLikes == InitInterview /\ [][NextLikes]_vars

\* the like_question calls that have updated a stored question
Likes(question_id) ==
  {call \in DOMAIN calls : /\ calls[call].op = "like_question"
                           /\ calls[call].pc = "done"
                           /\ calls[call].question_id = question_id
                           /\ calls[call].updated}

\* a like changes the likes of its question and nothing else
LikeStep ==
  \A call \in DOMAIN calls :
    (calls[call].pc = "update" /\ calls'[call].pc = "done") =>
      /\ UNCHANGED <<users, answers, progress, media_files, bucket, applications>>
      /\ DOMAIN questions' = DOMAIN questions
      /\ \A id \in DOMAIN questions :
           IF id = calls[call].question_id
           THEN /\ questions'[id].likes = questions[id].likes + 1
                /\ [questions'[id] EXCEPT !.likes = 0]
                     = [questions[id] EXCEPT !.likes = 0]
           ELSE questions'[id] = questions[id]

\* a question created with no like has one like per completed call
LikesCounted ==
  \A id \in DOMAIN questions : questions[id].likes = Cardinality(Likes(id))

\* C16: no like is lost: after n like_question calls on the same stored
\* question have completed, in any interleaving of the requests, its likes
\* counter is its initial value plus n, and no other field of the question
\* has changed.
C16_NoLikeLost == [][LikeStep]_vars /\ []LikesCounted

\* three like_question calls on q1 have completed
C16_Witness ==
  /\ "q1" \in DOMAIN questions
  /\ questions["q1"].likes = 3
  /\ Cardinality(Likes("q1")) = 3

----------------------------------------------------------------------------
(* Mastery, with answers submitted in between *)

\* C17: after any sequence of submit_answer and update_mastery_level calls
\* by one user on one question, in any order, the mastery_level of the
\* progress row is the mean of the scores passed to update_mastery_level
\* for it, also when submit_answer created the row or counted attempts on
\* it between the updates.
C17_MeanWhateverTheOrder ==
  /\ resp.route = "update_mastery_level" =>
       progress[<<resp.arg.user_id, resp.arg.question_id>>].mastery_level # Null
  /\ \A key \in DOMAIN progress \cap DOMAIN supplied :
       /\ progress[key].mastery_level # Null
       /\ IsQuotient(progress[key].mastery_level[1], supplied[key].sum,
                     supplied[key].n)

\* a row that update_mastery_level created, with an answer submitted before
\* the second update: the level is not the mean of the two scores
C17_SkewedMean ==
  \E key \in DOMAIN progress \cap DOMAIN supplied :
    /\ supplied[key].n = 2
    /\ progress[key].attempts = 3
    /\ ~IsQuotient(progress[key].mastery_level[1], supplied[key].sum, 2)

----------------------------------------------------------------------------
(* Mastery updates at the same time *)

NextMasteryRace ==
  \/ \E call \in Calls, confidence_score \in Scores :
       update_mastery_level_select(call, "u1", "q1", confidence_score)
  \/ \E call \in Calls : update_mastery_level_write(call, 2)

SpecMasteryRace == InitInterview /\ [][NextMasteryRace]_vars

\* the call has completed, having read the row as it was
Updated(call, key, row) ==
  /\ call \in DOMAIN calls
  /\ calls[call].op = "update_mastery_level"
  /\ calls[call].pc = "done"
  /\ calls[call].key = key
  /\ calls[call].current_progress = Some(row)

\* the call wrote the row before it had attempts a, or has not written it
Earlier(call, key, a) ==
  \/ calls[call].op # "update_mastery_level"
  \/ calls[call].key # key
  \/ calls[call].pc = "write"
  \/ calls[call].current_progress = Null
  \/ calls[call].current_progress[1].attempts < a

\* C18: two update_mastery_level calls for the same user and question, with
\* scores s1 and s2, that both start from the row with attempts a and
\* mastery m, leave attempts a + 2 and mastery (m*a + s1 + s2)/(a + 2), as
\* one after the other would: no interleaving of the reads and the updates
\* loses the contribution of a score.
C18_ConcurrentUpdatesSerialize ==
  \A key \in DOMAIN progress :
    \A c1, c2 \in DOMAIN calls :
      \A row \in {calls[c1].current_progress[i] :
                    i \in DOMAIN calls[c1].current_progress} :
        (/\ c1 # c2
         /\ Updated(c1, key, row)
         /\ Updated(c2, key, row)
         /\ \A c \in DOMAIN calls \ {c1, c2} : Earlier(c, key, row.attempts))
        => /\ progress[key].attempts = row.attempts + 2
           /\ IsQuotient(progress[key].mastery_level[1],
                         RatAdd(RatAdd(RatMulInt(row.mastery_level[1], row.attempts),
                                       calls[c1].confidence_score),
                                calls[c2].confidence_score),
                         row.attempts + 2)

\* of two such calls, attempts counts both
C18_AttemptsCountBoth ==
  \A key \in DOMAIN progress :
    \A c1, c2 \in DOMAIN calls :
      \A row \in {calls[c1].current_progress[i] :
                    i \in DOMAIN calls[c1].current_progress} :
        (/\ c1 # c2
         /\ Updated(c1, key, row)
         /\ Updated(c2, key, row)
         /\ \A c \in DOMAIN calls \ {c1, c2} : Earlier(c, key, row.attempts))
        => progress[key].attempts = row.attempts + 2

----------------------------------------------------------------------------
(* Answers submitted at the same time *)

RaceAnswers ==
  [id : {"a1", "a2"}, question_id : {"q1"}, confidence_score : {Null},
   created_at : {1}]

NextSubmitRace ==
  \/ register_user(Ann)
  \/ \E question \in FirstQuestion :
       /\ question.id \notin DOMAIN questions
       /\ create_question(create_access_token("ann"), question)
  \/ \E call \in Calls, token \in {NoToken, create_access_token("ann")},
        answer \in RaceAnswers :
       submit_answer_select_question(call, token, answer)
  \/ \E call \in Calls : submit_answer_insert_answer(call)
  \/ \E call \in Calls : submit_answer_select_progress(call)
  \/ \E call \in Calls : submit_answer_write_progress(call)

SpecSubmitRace == InitInterview /\ [][NextSubmitRace]_vars

\* no request is in service
Quiet == \A call \in DOMAIN calls : calls[call].pc \in {"done", "raised"}

\* the calls that have succeeded for the user and the question
Succeeded(key) ==
  {call \in DOMAIN calls :
     /\ calls[call].pc = "done"
     /\ \/ /\ calls[call].op = "submit_answer"
           /\ <<calls[call].user, calls[call].answer.question_id>> = key
        \/ /\ calls[call].op = "update_mastery_level"
           /\ calls[call].key = key}

\* C19: once the requests in flight have finished, the attempts of the
\* progress row of a user and a question is the number of successful
\* submit_answer and update_mastery_level calls made for them, under any
\* interleaving, two first submissions that both find no row included.
C19_AttemptsCountCalls ==
  Quiet =>
    \A user_id \in UserIds, question_id \in QuestionIds :
      LET key == <<user_id, question_id>> IN
      Succeeded(key) # {} =>
        /\ key \in DOMAIN progress
        /\ progress[key].attempts = Cardinality(Succeeded(key))

----------------------------------------------------------------------------
(* Registrations at the same time *)

\* The requests all register ann@x; a process that starts while a request is
\* in service leaves the request to the process that took it.
NextRegisterRace ==
  \/ \E call \in Calls : register_user_select(call, Ann)
  \/ \E call \in Calls : register_user_insert(call)
  \/ \E d \in UserDefaults : Restart(d)

SpecRegisterRace == InitUsers /\ [][NextRegisterRace]_vars

\* the register_user calls that have returned a user
Registered(email) ==
  {call \in DOMAIN calls : /\ calls[call].op = "register_user"
                           /\ calls[call].pc = "done"
                           /\ calls[call].email = email}

\* C20: of the register_user requests with one email that run at the same
\* time, at most one succeeds: in no interleaving of their existence checks
\* and inserts do two of them return a user, and the email is never
\* registered twice.
C20_AtMostOneRegisters ==
  /\ \A email \in Emails : Cardinality(Registered(email)) <= 1
  /\ \A id, other \in DOMAIN users :
       users[id].email = users[other].email => id = other

\* two requests served by two processes have both returned a user, and two
\* records hold the email
C20_RegisteredTwice ==
  /\ Cardinality(Registered("ann@x")) = 2
  /\ Cardinality({id \in DOMAIN users : users[id].email = "ann@x"}) = 2

----------------------------------------------------------------------------
(* The emails of the users *)

\* no two user records hold one email
EmailsApart ==
  \A id, other \in DOMAIN users :
    users[id].email = users[other].email => id = other

\* an update_user request was served whose email another user held
UpdateToHeldEmail ==
  /\ resp'.route = "update_user"
  /\ resp'.user # Nobody
  /\ \E other \in DOMAIN users \ {resp'.user} : users[other].email = resp'.arg

\* C21: after any sequence of register_user and update_user calls no two
\* user records have the same email, and update_user with an email that a
\* different user holds does not store that email.
C21_EmailUnique ==
  /\ [][UpdateToHeldEmail => users'[resp'.user].email # resp'.arg]_vars
  /\ []EmailsApart

\* register_user leaves the emails of the records apart
C21_RegistrationKeepsEmailsApart ==
  [][(EmailsApart /\ resp'.route = "register_user") => EmailsApart']_vars

\* update_user has stored an email that another record holds
C21_EmailSharedAfterUpdate ==
  /\ resp.route = "update_user"
  /\ resp.status = 200
  /\ \E other \in DOMAIN users \ {resp.user} : users[other].email = resp.arg
  /\ users[resp.user].email = resp.arg

----------------------------------------------------------------------------
(* The job applications of two users *)

Bob == [email |-> "bob@x", username |-> "bob", password |-> "pw"]

ApplicationIds == {"p1", "p2"}
NewStatuses == {"interview", "rejected"}

\* Ann and Bob register, in one process or in two, apply to the job j1 at
\* time 1 and set the status of applications, their own or not, stored or
\* not, at time 2.
NextApplications ==
  \/ \E user \in {Ann, Bob} : register_user(user)
  \/ \E d \in UserDefaults : Restart(d)
  \/ \E token \in Tokens : apply_to_job(token, "j1", ApplicationIds, 1)
  \/ \E token \in Tokens : get_user_applications(token)
  \/ \E token \in Tokens, application_id \in ApplicationIds \cup {"p3"},
        status \in NewStatuses :
       update_application_status(token, application_id, status, 2)

SpecApplications == InitAuth /\ [][NextApplications]_vars

\* update_application_status was served for a user
StatusUpdateStep ==
  resp'.route = "update_application_status" /\ resp'.user # Nobody

\* C22: update_application_status issued by a user leaves the status and
\* last_updated of every application owned by a different user as they were,
\* whatever application id the user supplies.
C22_OnlyOwnApplications ==
  [][StatusUpdateStep =>
       \A id \in DOMAIN applications :
         applications[id].user_id # resp'.user =>
           /\ id \in DOMAIN applications'
           /\ applications'[id].status = applications[id].status
           /\ applications'[id].last_updated = applications[id].last_updated]_vars

\* the call changes no application other than the one whose id it was given,
\* and of that one only status and last_updated
C22_OnlySuppliedApplication ==
  [][StatusUpdateStep =>
       /\ DOMAIN applications' = DOMAIN applications
       /\ \A id \in DOMAIN applications :
            /\ id # resp'.arg => applications'[id] = applications[id]
            /\ applications'[id].user_id = applications[id].user_id
            /\ applications'[id].job_id = applications[id].job_id
            /\ applications'[id].applied_date = applications[id].applied_date]_vars

\* the application that the last update_application_status addressed is owned
\* by another user than the caller, and its status and last_updated are those
\* of an update
C22_UpdatedByAnother ==
  /\ resp.route = "update_application_status"
  /\ resp.user # Nobody
  /\ resp.arg \in DOMAIN applications
  /\ applications[resp.arg].user_id \in DOMAIN users \ {resp.user}
  /\ applications[resp.arg].status \in NewStatuses
  /\ applications[resp.arg].last_updated = 2

====
